---- MODULE Spec2Model ----
(***************************************************************************)
(* Model of the osc-dm-proxy-srv gateway: the route matching and target    *)
(* resolution of server.py, the forwarding error taxonomy, the statistics  *)
(* collector of stats.py and the key/value registry client of etcd.py.     *)
(*                                                                         *)
(* A Python string is a sequence of one-character strings, so that         *)
(* concatenation, splitting, regular-expression and glob matching are      *)
(* computed the way the code computes them.  Route targets and backend     *)
(* addresses are opaque to the code except for equality and concatenation; *)
(* they are one-token sequences.                                           *)
(***************************************************************************)
EXTENDS Integers, Sequences, FiniteSets, TLC

VARIABLES
    routes,           \* state.gstate(STATE_ROUTES): the configured route table
    pc,               \* position of the request being handled
    path,             \* the {path:path} parameter of route_path
    matching_routes,  \* handle_request: the specific routes that matched
    catchall_route,   \* handle_request: <<route>> or <<>> for None
    target_route,     \* handle_request: the URL handed to _forward_request
    exc,              \* the exception in flight, cls = "None" when there is none
    backend_exc,      \* the httpx exception class the backend call raised
    response,         \* status code of the Response handle_request returned (0: none)
    status,           \* HTTP status the caller receives (0 while in progress)
    resolver_calls,   \* paths dynamic_resolver was called with, current request
    forward_calls,    \* URLs _forward_request was called with, current request
    forwards,         \* URLs requested from a backend for the current request
    directory_calls,  \* identifiers sent to the Registrar for the current request
    error_log,        \* routes named by logger.error in the ambiguity branch
    handled,          \* number of route_path invocations that have completed
    statistics,       \* Stats.statistics (defaultdict(int))
    reqs,             \* Stats.reqs
    errs,             \* Stats.errs
    store,            \* the keys and JSON texts held by etcd
    returned,         \* the last Etcd call and the value it returned
    etcd_pc,          \* Etcd.__init__: "connecting", "connected" or "raised"
    connect_attempts, \* outcome of each call of Etcd._connect made by the retry
    trace_counter,    \* state.gstate(STATE_TRACEID), -1 while the slot is None
    task_pc,          \* position of each request task in tracer.wrapper
    task_trace_id,    \* the local trace_id of each request task
    trace_log         \* the TRACE REQ / TRACE RSP lines logged

vars == <<routes, pc, path, matching_routes, catchall_route, target_route, exc,
          backend_exc, response, status, resolver_calls, forward_calls, forwards,
          directory_calls, error_log, handled,
          statistics, reqs, errs, store, returned, etcd_pc, connect_attempts,
          trace_counter, task_pc, task_trace_id, trace_log>>

routerVars == <<routes, pc, path, matching_routes, catchall_route, target_route,
                exc, backend_exc, response, status, resolver_calls, forward_calls,
                forwards, directory_calls, error_log, handled>>
statsVars == <<statistics, reqs, errs>>
etcdVars == <<store, returned>>
connectVars == <<etcd_pc, connect_attempts>>
tracerVars == <<trace_counter, task_pc, task_trace_id, trace_log>>

-----------------------------------------------------------------------------
(* Bounds of the model. *)

MaxRoutes == 3      \* longest route table drawn at Init
MaxRequests == 2    \* requests handled one after the other
MaxStatsCalls == 3  \* calls of Stats.process and Stats.error
MaxTasks == 3       \* request tasks wrapped by tracer that may be in flight

-----------------------------------------------------------------------------
(* Strings. *)

Min(S) == CHOOSE x \in S : \A y \in S : x <= y

StartsWith(s, p) == Len(s) >= Len(p) /\ SubSeq(s, 1, Len(p)) = p

U1 == <<"3","f","a","8","5","f","6","4","-","5","7","1","7","-","4","5","6","2","-","b","3","f","c","-","2","c","9","6","3","f","6","6","a","f","a","6">>
U2 == <<"A","B","C","D","E","F","0","1","-","2","3","4","5","-","6","7","8","9","-","a","b","c","d","-","e","f","0","1","2","3","4","5","6","7","8","9">>
NearUuid == <<"3","f","a","8","5","f","6","4","-","5","7","1","7","-","4","5","6","2","-","b","3","f","c","-","2","c","9","6","3","f","6","6","a","f","g","6">>

-----------------------------------------------------------------------------
(* re.match(pattern, string): the pattern must match a prefix of the       *)
(* string.  The patterns of the model use literal characters, "." and a    *)
(* "*" after an atom.                                                      *)

AtomMatches(a, c) == a = "." \/ a = c

RECURSIVE re_match(_, _)
re_match(pattern, s) ==
    IF pattern = <<>> THEN TRUE
    ELSE IF Len(pattern) >= 2 /\ pattern[2] = "*"
    THEN \/ re_match(SubSeq(pattern, 3, Len(pattern)), s)
         \/ /\ s # <<>>
            /\ AtomMatches(pattern[1], s[1])
            /\ re_match(pattern, Tail(s))
    ELSE /\ s # <<>>
         /\ AtomMatches(pattern[1], s[1])
         /\ re_match(Tail(pattern), Tail(s))

(* re.search(uuid_regex, path): the leftmost substring of the shape        *)
(* 8-4-4-4-12 hexadecimal digits.                                          *)

HexDigits == {"0","1","2","3","4","5","6","7","8","9",
              "a","b","c","d","e","f","A","B","C","D","E","F"}

UuidLen == 36
UuidDashes == {9, 14, 19, 24}

UuidAt(s, i) ==
    /\ i + UuidLen - 1 <= Len(s)
    /\ \A j \in 1..UuidLen :
          IF j \in UuidDashes THEN s[i + j - 1] = "-"
          ELSE s[i + j - 1] \in HexDigits

uuid_regex_search_unchecked(s) ==
    IF Len(s) < UuidLen THEN [found |-> FALSE, group |-> <<>>]
    ELSE [found |-> TRUE, group |-> SubSeq(s, 1, UuidLen)]

uuid_regex_search(s) ==
    LET starts == {i \in 1..Len(s) : UuidAt(s, i)}
    IN IF starts = {} THEN [found |-> FALSE, group |-> <<>>]
       ELSE [found |-> TRUE,
             group |-> SubSeq(s, Min(starts), Min(starts) + UuidLen - 1)]

-----------------------------------------------------------------------------
(* The routes and request paths the model draws from. *)

Slash == <<"/">>

CATCHALL_PATTERN == <<"/", ".", "*">>            \* "/.*"
Sentinel == <<"dataproduct_resolver">>
BackendA == <<"http://backend-a">>
BackendB == <<"http://backend-b">>
CatchallTarget == <<"catchall">>
CatchallTarget2 == <<"catchall2">>
ProductAddress == <<"http://product-host:9000">>

RouteCatalogue ==
    { [source |-> <<"/", "s", "/", ".", "*">>, target |-> BackendA],   \* /s/.*
      [source |-> <<"/", "s", "/", "p">>,      target |-> BackendB],   \* /s/p
      [source |-> <<"/", "d", "/", ".", "*">>, target |-> Sentinel],   \* /d/.*
      [source |-> CATCHALL_PATTERN,            target |-> CatchallTarget],
      [source |-> CATCHALL_PATTERN,            target |-> CatchallTarget2],
      [source |-> CATCHALL_PATTERN,            target |-> Sentinel] }

RouteTables == UNION { [1..n -> RouteCatalogue] : n \in 0..MaxRoutes }

Paths ==
    { <<>>,                                     \* GET /
      <<"x">>,
      <<"s", "/", "p">>,
      <<"s", "/", "q">>,
      <<"d", "/", "x">>,
      <<"d", "/">> \o U1 \o <<"/", "x">>,
      <<"d", "/">> \o U2 \o Slash \o U1,
      <<"d", "/", "a", "b">> \o U1,
      <<"d", "/">> \o NearUuid }

-----------------------------------------------------------------------------
(* Exceptions.  Base gives the direct base class; a class the table does   *)
(* not name derives from Exception.                                        *)

HttpxBase(cls) ==
    CASE cls \in {"ConnectTimeout", "ReadTimeout", "WriteTimeout", "PoolTimeout"}
            -> "TimeoutException"
      [] cls \in {"ConnectError", "ReadError", "WriteError", "CloseError"}
            -> "NetworkError"
      [] cls \in {"LocalProtocolError", "RemoteProtocolError"} -> "ProtocolError"
      [] cls \in {"TimeoutException", "NetworkError", "ProtocolError",
                  "ProxyError", "UnsupportedProtocol"} -> "TransportError"
      [] cls \in {"TransportError", "DecodingError", "TooManyRedirects"}
            -> "RequestError"
      [] cls \in {"RequestError", "HTTPStatusError"} -> "HTTPError"
      [] OTHER -> "Exception"

BgsBase(cls) ==
    IF cls = "BgsNotFoundException" THEN "BgsException" ELSE "Exception"

Base(cls) == IF BgsBase(cls) # "Exception" THEN BgsBase(cls) ELSE HttpxBase(cls)

RECURSIVE IsInstance(_, _)
IsInstance(cls, of) ==
    \/ cls = of
    \/ cls # "Exception" /\ IsInstance(Base(cls), of)

NoException == [cls |-> "None", status_code |-> 0]
Raise(cls) == [cls |-> cls, status_code |-> 0]
HTTPException(code) == [cls |-> "HTTPException", status_code |-> code]

-----------------------------------------------------------------------------
(* handle_request: the scan of the route table and the decision.           *)

RECURSIVE ScanRoutesKeepFirst(_, _, _, _, _)
ScanRoutesKeepFirst(rts, i, p, catchall, matching) ==
    IF i > Len(rts) THEN [catchall_route |-> catchall, matching_routes |-> matching]
    ELSE IF re_match(rts[i].source, Slash \o p)
         THEN IF rts[i].source = CATCHALL_PATTERN
              THEN ScanRoutesKeepFirst(rts, i + 1, p,
                                       IF catchall = <<>> THEN <<rts[i]>> ELSE catchall,
                                       matching)
              ELSE ScanRoutesKeepFirst(rts, i + 1, p, catchall, Append(matching, rts[i]))
         ELSE ScanRoutesKeepFirst(rts, i + 1, p, catchall, matching)

RECURSIVE ScanRoutes(_, _, _, _, _)
ScanRoutes(rts, i, p, catchall, matching) ==
    IF i > Len(rts) THEN [catchall_route |-> catchall, matching_routes |-> matching]
    ELSE IF re_match(rts[i].source, Slash \o p)
         THEN IF rts[i].source = CATCHALL_PATTERN
              THEN ScanRoutes(rts, i + 1, p, <<rts[i]>>, matching)
              ELSE ScanRoutes(rts, i + 1, p, catchall, Append(matching, rts[i]))
         ELSE ScanRoutes(rts, i + 1, p, catchall, matching)

MatchRoutes(rts, p) == ScanRoutes(rts, 1, p, <<>>, <<>>)

BranchCatchallFirst(matching, catchall) ==
    IF catchall # <<>> THEN "catchall"
    ELSE IF Len(matching) = 1 THEN "specific"
    ELSE IF Len(matching) > 1 THEN "ambiguous"
    ELSE "nomatch"

BranchFirstWins(matching, catchall) ==
    IF Len(matching) >= 1 THEN "specific"
    ELSE IF catchall # <<>> THEN "catchall"
    ELSE "nomatch"

Branch(matching, catchall) ==
    IF Len(matching) = 1 THEN "specific"
    ELSE IF Len(matching) = 0 /\ catchall # <<>> THEN "catchall"
    ELSE IF Len(matching) > 1 THEN "ambiguous"
    ELSE "nomatch"

IsDynamic(target) == target = Sentinel

ComposeUrl(base, p) == base \o Slash \o p

-----------------------------------------------------------------------------
(* Registrar.retrieve_product_address(self, request, uuid) and its call in *)
(* _service_discovery.  Python binds the arguments before the body runs:   *)
(* a call with the wrong number of positional arguments raises TypeError   *)
(* and the directory is not contacted.                                     *)

RegistrarParams == <<"request", "uuid">>

ServiceDiscoveryArgs(uuid) == <<uuid>>

DirectoryReplies ==
    { [kind |-> "json", has_address |-> TRUE,  address |-> ProductAddress],
      [kind |-> "json", has_address |-> FALSE, address |-> <<>>],
      [kind |-> "raises", has_address |-> FALSE, address |-> <<>>] }

retrieve_product_address(args, reply) ==
    IF Len(args) # Len(RegistrarParams)
    THEN [called |-> FALSE, exc |-> Raise("TypeError"), address |-> <<>>]
    ELSE IF reply.kind = "raises"
    THEN [called |-> TRUE, exc |-> Raise("BgsException"), address |-> <<>>]
    ELSE IF ~reply.has_address
    THEN [called |-> TRUE, exc |-> Raise("KeyError"), address |-> <<>>]
    ELSE [called |-> TRUE, exc |-> NoException, address |-> reply.address]

-----------------------------------------------------------------------------
(* _forward_request: the chain of except clauses, first match wins.        *)

ForwardFailureStatus(cls, backend_status) ==
    IF IsInstance(cls, "ConnectTimeout") THEN 504
    ELSE IF IsInstance(cls, "ConnectError") THEN 503
    ELSE IF IsInstance(cls, "NetworkError") THEN 503
    ELSE IF IsInstance(cls, "ReadTimeout") THEN 504
    ELSE IF IsInstance(cls, "HTTPStatusError") THEN backend_status
    ELSE IF IsInstance(cls, "RequestError") THEN 502
    ELSE 500

(* What the environment does to one call of _forward_request.  The body of *)
(* the inbound request may fail to be read, before a backend is contacted; *)
(* client.request never raises HTTPStatusError (raise_for_status is not    *)
(* called), a backend error status is an ordinary response.                *)

BackendStatuses == {200, 404, 503}

BackendFailures ==
    {"ConnectTimeout", "ReadTimeout", "WriteTimeout", "ConnectError",
     "ReadError", "RemoteProtocolError", "UnsupportedProtocol",
     "TooManyRedirects", "InvalidURL", "RuntimeError"}

ForwardOutcomes ==
    [kind : {"response"}, cls : {"None"}, status_code : BackendStatuses]
    \cup [kind : {"raises"}, cls : BackendFailures, status_code : {0}]
    \cup [kind : {"body_raises"}, cls : {"ClientDisconnect"}, status_code : {0}]

(* The backend requests one call of _forward_request issues: one call of   *)
(* client.request, none when the inbound body could not be read.           *)

BackendRequestsRetry(o, url) ==
    IF o.kind = "body_raises" THEN <<>>
    ELSE IF o.kind = "raises" THEN <<url, url>>
    ELSE <<url>>

BackendRequests(o, url) == IF o.kind = "body_raises" THEN <<>> ELSE <<url>>

(* route_path: the except clauses that turn the outcome of handle_request  *)
(* into the status the caller receives.                                    *)

RoutePathStatusCollapsed(e, resp) ==
    IF e.cls = "None" THEN resp
    ELSE IF IsInstance(e.cls, "BgsNotFoundException") THEN 404
    ELSE 500

RoutePathStatus(e, resp) ==
    IF e.cls = "None" THEN resp
    ELSE IF IsInstance(e.cls, "BgsNotFoundException") THEN 404
    ELSE IF IsInstance(e.cls, "HTTPException") THEN e.status_code
    ELSE 500

-----------------------------------------------------------------------------
(* The gateway handling requests, one after the other.                     *)

RequestInit ==
    /\ pc = "idle"
    /\ path = <<>>
    /\ matching_routes = <<>>
    /\ catchall_route = <<>>
    /\ target_route = <<>>
    /\ exc = NoException
    /\ backend_exc = "None"
    /\ response = 0
    /\ status = 0
    /\ resolver_calls = <<>>
    /\ forward_calls = <<>>
    /\ forwards = <<>>
    /\ directory_calls = <<>>
    /\ error_log = <<>>
    /\ handled = 0

StatsInit ==
    /\ statistics = <<>>
    /\ reqs = <<>>
    /\ errs = <<>>

EtcdInit ==
    /\ store = <<>>
    /\ returned = [call |-> "__init__", arg |-> <<>>, is_none |-> TRUE, items |-> <<>>]

(* An Etcd object whose construction succeeded at the first attempt. *)
ConnectedInit ==
    /\ etcd_pc = "connected"
    /\ connect_attempts = <<"ok">>

(* No request has been traced: the STATE_TRACEID slot is unset. *)
Tasks == 1..MaxTasks

TracerInit ==
    /\ trace_counter = -1
    /\ task_pc = [t \in Tasks |-> "start"]
    /\ task_trace_id = [t \in Tasks |-> -1]
    /\ trace_log = <<>>

Init ==
    /\ routes \in RouteTables
    /\ RequestInit
    /\ StatsInit
    /\ EtcdInit
    /\ ConnectedInit
    /\ TracerInit

(* An inbound request reaches route_path. *)
Receive(p) ==
    /\ pc \in {"idle", "done"}
    /\ handled < MaxRequests
    /\ pc' = "handle_request"
    /\ path' = p
    /\ matching_routes' = <<>>
    /\ catchall_route' = <<>>
    /\ target_route' = <<>>
    /\ exc' = NoException
    /\ backend_exc' = "None"
    /\ response' = 0
    /\ status' = 0
    /\ resolver_calls' = <<>>
    /\ forward_calls' = <<>>
    /\ forwards' = <<>>
    /\ directory_calls' = <<>>
    /\ error_log' = <<>>
    /\ UNCHANGED <<routes, handled, statsVars, etcdVars, connectVars, tracerVars>>

(* handle_request up to its first await or raise. *)
HandleRequest ==
    /\ pc = "handle_request"
    /\ LET m == MatchRoutes(routes, path)
           branch == Branch(m.matching_routes, m.catchall_route)
       IN /\ matching_routes' = m.matching_routes
          /\ catchall_route' = m.catchall_route
          /\ CASE branch = "specific" ->
                    IF IsDynamic(m.matching_routes[1].target)
                    THEN /\ pc' = "dynamic_resolver"
                         /\ resolver_calls' = Append(resolver_calls, path)
                         /\ UNCHANGED <<target_route, forward_calls, exc, error_log>>
                    ELSE /\ pc' = "_forward_request"
                         /\ target_route' = ComposeUrl(m.matching_routes[1].target, path)
                         /\ forward_calls' = Append(forward_calls, target_route')
                         /\ UNCHANGED <<resolver_calls, exc, error_log>>
               [] branch = "catchall" ->
                    /\ pc' = "_forward_request"
                    /\ target_route' = ComposeUrl(m.catchall_route[1].target, path)
                    /\ forward_calls' = Append(forward_calls, target_route')
                    /\ UNCHANGED <<resolver_calls, exc, error_log>>
               [] branch = "ambiguous" ->
                    /\ pc' = "route_path"
                    /\ error_log' = m.matching_routes
                    /\ exc' = Raise("BgsException")
                    /\ UNCHANGED <<target_route, resolver_calls, forward_calls>>
               [] OTHER ->
                    /\ pc' = "route_path"
                    /\ exc' = Raise("BgsException")
                    /\ UNCHANGED <<target_route, resolver_calls, forward_calls,
                                   error_log>>
    /\ UNCHANGED <<routes, path, backend_exc, response, status, forwards,
                   directory_calls, handled, statsVars, etcdVars, connectVars, tracerVars>>

(* dynamic_resolver and _service_discovery; handle_request raises a        *)
(* BgsNotFoundException anew and lets every other exception through.       *)
ServiceDiscovery(reply) ==
    /\ pc = "dynamic_resolver"
    /\ LET match == uuid_regex_search(path)
           got == retrieve_product_address(ServiceDiscoveryArgs(match.group), reply)
       IN IF ~match.found
          THEN /\ exc' = Raise("BgsNotFoundException")
               /\ pc' = "route_path"
               /\ UNCHANGED <<directory_calls, target_route, forward_calls>>
          ELSE /\ directory_calls' = IF got.called
                                     THEN Append(directory_calls, match.group)
                                     ELSE directory_calls
               /\ IF got.exc.cls # "None"
                  THEN /\ exc' = got.exc
                       /\ pc' = "route_path"
                       /\ UNCHANGED <<target_route, forward_calls>>
                  ELSE /\ target_route' = ComposeUrl(got.address, path)
                       /\ forward_calls' = Append(forward_calls, target_route')
                       /\ pc' = "_forward_request"
                       /\ UNCHANGED exc
    /\ UNCHANGED <<routes, path, matching_routes, catchall_route, backend_exc,
                   response, status, resolver_calls, forwards, error_log, handled,
                   statsVars, etcdVars, connectVars, tracerVars>>

(* _forward_request and the construction of the Response. *)
ForwardRequest(o) ==
    /\ pc = "_forward_request"
    /\ pc' = "route_path"
    /\ forwards' = forwards \o BackendRequests(o, target_route)
    /\ IF o.kind = "response"
       THEN /\ response' = o.status_code
            /\ UNCHANGED <<exc, backend_exc>>
       ELSE /\ backend_exc' = o.cls
            /\ exc' = HTTPException(ForwardFailureStatus(o.cls, o.status_code))
            /\ UNCHANGED response
    /\ UNCHANGED <<routes, path, matching_routes, catchall_route, target_route,
                   status, resolver_calls, forward_calls, directory_calls,
                   error_log, handled, statsVars, etcdVars, connectVars, tracerVars>>

(* route_path returns the response or raises the HTTPException the caller  *)
(* sees.                                                                   *)
RoutePath ==
    /\ pc = "route_path"
    /\ pc' = "done"
    /\ status' = RoutePathStatus(exc, response)
    /\ handled' = handled + 1
    /\ UNCHANGED <<routes, path, matching_routes, catchall_route, target_route,
                   exc, backend_exc, response, resolver_calls, forward_calls,
                   forwards, directory_calls, error_log, statsVars, etcdVars, connectVars, tracerVars>>

Next ==
    \/ \E p \in Paths : Receive(p)
    \/ HandleRequest
    \/ \E reply \in DirectoryReplies : ServiceDiscovery(reply)
    \/ \E o \in ForwardOutcomes : ForwardRequest(o)
    \/ RoutePath

Spec == Init /\ [][Next]_vars

-----------------------------------------------------------------------------
(* stats.py: the statistics collector.                                     *)

(* str.split('/') *)
RECURSIVE SplitFrom(_, _, _, _)
SplitFrom(s, i, cur, acc) ==
    IF i > Len(s) THEN Append(acc, cur)
    ELSE IF s[i] = "/" THEN SplitFrom(s, i + 1, <<>>, Append(acc, cur))
    ELSE SplitFrom(s, i + 1, Append(cur, s[i]), acc)

split(s) == SplitFrom(s, 1, <<>>, <<>>)

(* d[k] += 1 on a defaultdict(int) *)
Increment(d, k) ==
    [x \in DOMAIN d \cup {k} |->
        IF x = k THEN (IF k \in DOMAIN d THEN d[k] ELSE 0) + 1 ELSE d[x]]

ERROR_KEY == <<"e", "r", "r", "o", "r">>

RECURSIVE CountSegments(_, _, _, _)
CountSegments(d, segments, i, incremental_path) ==
    IF i > Len(segments) THEN d
    ELSE LET next_path == incremental_path \o <<"/">> \o segments[i]
         IN CountSegments(Increment(d, next_path), segments, i + 1, next_path)

RECURSIVE CountSegmentsOverwrite(_, _, _)
CountSegmentsOverwrite(d, segments, i) ==
    IF i > Len(segments) THEN d
    ELSE CountSegmentsOverwrite(Increment(d, <<"/">> \o segments[i]), segments, i + 1)

process_overwrite(d, url_path) ==
    CountSegmentsOverwrite(Increment(d, <<"/">>), split(url_path), 2)

process(d, url_path) ==
    CountSegments(Increment(d, <<"/">>), split(url_path), 2, <<>>)

StatsPaths ==
    { <<>>,
      <<"/">>,
      <<"/", "a">>,
      <<"/", "a", "/">>,
      <<"/", "a", "b">>,
      <<"/", "a", "/", "b">>,
      <<"/", "a", "/", "c">>,
      <<"/", "/", "a">>,
      <<"/">> \o ERROR_KEY }

StatsMessages == { <<"Path not found">> }

StatsSpecInit ==
    /\ routes = <<>>
    /\ RequestInit
    /\ StatsInit
    /\ EtcdInit
    /\ ConnectedInit
    /\ TracerInit

StatsProcess(url_path) ==
    /\ Len(reqs) + Len(errs) < MaxStatsCalls
    /\ statistics' = process(statistics, url_path)
    /\ reqs' = Append(reqs, [path |-> url_path])
    /\ UNCHANGED <<errs, routerVars, etcdVars, connectVars, tracerVars>>

StatsError(url_path, msg) ==
    /\ Len(reqs) + Len(errs) < MaxStatsCalls
    /\ statistics' = Increment(statistics, ERROR_KEY)
    /\ errs' = Append(errs, [path |-> url_path, msg |-> msg])
    /\ UNCHANGED <<reqs, routerVars, etcdVars, connectVars, tracerVars>>

StatsNext ==
    \/ \E p \in StatsPaths : StatsProcess(p)
    \/ \E p \in StatsPaths, msg \in StatsMessages : StatsError(p, msg)

StatsSpec == StatsSpecInit /\ [][StatsNext]_vars

-----------------------------------------------------------------------------
(* etcd.py: the key/value registry client.                                 *)

(* json.dumps and json.loads: the store holds texts, the caller values. *)
json_dumps(value) == <<"json", value>>
json_loads(text) == text[2]

(* Byte order of the characters the keys use; etcd returns a range in key  *)
(* order.                                                                  *)
Ascii == <<"*", "/", "1", "2", "?", "c", "d", "e", "h", "o", "p", "r", "t", "u">>

CharCode(c) == CHOOSE i \in 1..Len(Ascii) : Ascii[i] = c

RECURSIVE KeyLess(_, _)
KeyLess(a, b) ==
    IF a = <<>> THEN b # <<>>
    ELSE IF b = <<>> THEN FALSE
    ELSE IF a[1] = b[1] THEN KeyLess(Tail(a), Tail(b))
    ELSE CharCode(a[1]) < CharCode(b[1])

RECURSIVE SortKeys(_)
SortKeys(S) ==
    IF S = {} THEN <<>>
    ELSE LET first == CHOOSE x \in S : \A y \in S \ {x} : KeyLess(x, y)
         IN <<first>> \o SortKeys(S \ {first})

(* client.get_prefix(prefix): the (key, value) pairs whose key starts with *)
(* the prefix.                                                             *)
get_prefix(st, prefix) ==
    LET keys == SortKeys({k \in DOMAIN st : StartsWith(k, prefix)})
    IN [i \in 1..Len(keys) |-> [key |-> keys[i], value |-> st[keys[i]]]]

(* fnmatch.fnmatch(name, pat) for patterns of literals, "*" and "?". *)
RECURSIVE fnmatch(_, _)
fnmatch(name, pat) ==
    IF pat = <<>> THEN name = <<>>
    ELSE IF pat[1] = "*"
    THEN \/ fnmatch(name, Tail(pat))
         \/ name # <<>> /\ fnmatch(Tail(name), pat)
    ELSE /\ name # <<>>
         /\ pat[1] = "?" \/ pat[1] = name[1]
         /\ fnmatch(Tail(name), Tail(pat))

(* the loop over zip(segments_search, segments_path) *)
RECURSIVE SegmentsMatch(_, _, _)
SegmentsMatch(segments_search, segments_path, i) ==
    IF i > Len(segments_search) \/ i > Len(segments_path) THEN TRUE
    ELSE IF ~fnmatch(segments_path[i], segments_search[i]) THEN FALSE
    ELSE SegmentsMatch(segments_search, segments_path, i + 1)

RECURSIVE WildcardItems(_, _, _, _)
WildcardItems(all_data, i, wildcard_pattern, acc) ==
    IF i > Len(all_data) THEN acc
    ELSE LET segments_search == split(wildcard_pattern)
             segments_path == split(all_data[i].key)
         IN IF Len(segments_search) # Len(segments_path)
            THEN WildcardItems(all_data, i + 1, wildcard_pattern, acc)
            ELSE IF SegmentsMatch(segments_search, segments_path, 1)
            THEN WildcardItems(all_data, i + 1, wildcard_pattern,
                               Append(acc, json_loads(all_data[i].value)))
            ELSE WildcardItems(all_data, i + 1, wildcard_pattern, acc)

RECURSIVE WildcardItemsAnyDepth(_, _, _, _)
WildcardItemsAnyDepth(all_data, i, wildcard_pattern, acc) ==
    IF i > Len(all_data) THEN acc
    ELSE IF SegmentsMatch(split(wildcard_pattern), split(all_data[i].key), 1)
    THEN WildcardItemsAnyDepth(all_data, i + 1, wildcard_pattern,
                               Append(acc, json_loads(all_data[i].value)))
    ELSE WildcardItemsAnyDepth(all_data, i + 1, wildcard_pattern, acc)

Returned(call, arg, list) ==
    [call |-> call, arg |-> arg, is_none |-> FALSE, items |-> list]
ReturnedNone(call, arg) ==
    [call |-> call, arg |-> arg, is_none |-> TRUE, items |-> <<>>]

retrieve_wildcard_any_depth(st, wildcard_pattern) ==
    LET found == WildcardItemsAnyDepth(get_prefix(st, <<"/">>), 1, wildcard_pattern, <<>>)
    IN IF Len(found) = 0 THEN ReturnedNone("retrieve_wildcard", wildcard_pattern)
       ELSE Returned("retrieve_wildcard", wildcard_pattern, found)

retrieve_wildcard(st, wildcard_pattern) ==
    LET found == WildcardItems(get_prefix(st, <<"/">>), 1, wildcard_pattern, <<>>)
    IN IF Len(found) = 0 THEN ReturnedNone("retrieve_wildcard", wildcard_pattern)
       ELSE Returned("retrieve_wildcard", wildcard_pattern, found)

retrieve_prefix(st, prefix) ==
    LET found == get_prefix(st, prefix)
    IN Returned("retrieve_prefix", prefix,
                [i \in 1..Len(found) |-> json_loads(found[i].value)])

retrieve(st, key) ==
    IF key \in DOMAIN st THEN Returned("retrieve", key, <<json_loads(st[key])>>)
    ELSE ReturnedNone("retrieve", key)

EtcdKeys ==
    { <<"/", "p", "r", "o", "d", "u", "c", "t", "/", "1">>,
      <<"/", "p", "r", "o", "d", "u", "c", "t", "/", "1", "/", "1">>,
      <<"/", "o", "t", "h", "e", "r", "/", "1">>,
      <<"/", "p", "r", "o", "d", "u", "c", "t", "/", "1", "2">>,
      <<"/", "p", "r", "o", "d", "u", "c", "t", "/">>,
      <<"p", "r", "o", "d", "u", "c", "t", "/", "1">> }

EtcdValues == { [address |-> "host-a"], [address |-> "host-b"] }

WildcardPatterns ==
    { <<"/", "p", "r", "o", "d", "u", "c", "t", "/", "*">>,
      <<"/", "p", "r", "o", "d", "u", "c", "t", "/", "?">>,
      <<"/", "p", "r", "o", "d", "u", "c", "t", "/", "1">>,
      <<"/", "*", "/", "1">>,
      <<"/", "*", "/", "*", "/", "*">>,
      <<"/", "t", "h", "e", "/", "*">>,
      <<"p", "r", "o", "d", "u", "c", "t", "/", "*">> }

Prefixes ==
    { <<"/">>,
      <<"/", "p", "r", "o", "d", "u", "c", "t">>,
      <<"/", "o", "t", "h", "e", "r">>,
      <<"/", "t", "h", "e">>,
      <<"p", "r", "o", "d">> }

EtcdSpecInit ==
    /\ routes = <<>>
    /\ RequestInit
    /\ StatsInit
    /\ EtcdInit
    /\ ConnectedInit
    /\ TracerInit

Upsert(key, value) ==
    /\ store' = [k \in DOMAIN store \cup {key} |->
                    IF k = key THEN json_dumps(value) ELSE store[k]]
    /\ returned' = Returned("upsert", key, <<>>)
    /\ UNCHANGED <<routerVars, statsVars, connectVars, tracerVars>>

Remove(key) ==
    /\ store' = [k \in DOMAIN store \ {key} |-> store[k]]
    /\ returned' = Returned("remove", key, <<>>)
    /\ UNCHANGED <<routerVars, statsVars, connectVars, tracerVars>>

Retrieve(key) ==
    /\ returned' = retrieve(store, key)
    /\ UNCHANGED <<store, routerVars, statsVars, connectVars, tracerVars>>

RetrieveWildcard(wildcard_pattern) ==
    /\ returned' = retrieve_wildcard(store, wildcard_pattern)
    /\ UNCHANGED <<store, routerVars, statsVars, connectVars, tracerVars>>

RetrievePrefix(prefix) ==
    /\ returned' = retrieve_prefix(store, prefix)
    /\ UNCHANGED <<store, routerVars, statsVars, connectVars, tracerVars>>

EtcdNext ==
    \/ \E k \in EtcdKeys, v \in EtcdValues : Upsert(k, v)
    \/ \E k \in EtcdKeys : Remove(k)
    \/ \E k \in EtcdKeys : Retrieve(k)
    \/ \E w \in WildcardPatterns : RetrieveWildcard(w)
    \/ \E q \in Prefixes : RetrievePrefix(q)

EtcdSpec == EtcdSpecInit /\ [][EtcdNext]_vars

-----------------------------------------------------------------------------
(* etcd.py: Etcd.__init__ and the retried Etcd._connect.                   *)
(* @retry(stop=stop_after_attempt(3), wait=wait_fixed(5)): after a call    *)
(* that raised, the retry stops (and raises RetryError out of __init__)    *)
(* once the number of attempts made has reached the limit; otherwise it    *)
(* waits and calls _connect again.  A call that returns ends the retry.    *)

STOP_AFTER_ATTEMPT == 3

ShouldStopLate(attempt_number) == attempt_number > STOP_AFTER_ATTEMPT

ShouldStop(attempt_number) == attempt_number >= STOP_AFTER_ATTEMPT

ConnectOutcomes == {"ok", "error"}

ConnectInit ==
    /\ etcd_pc = "connecting"
    /\ connect_attempts = <<>>

(* one call of _connect: etcd3.client(...) returns or raises *)
Connect(outcome) ==
    /\ etcd_pc = "connecting"
    /\ connect_attempts' = Append(connect_attempts, outcome)
    /\ etcd_pc' = IF outcome = "ok" THEN "connected"
                  ELSE IF ShouldStop(Len(connect_attempts) + 1) THEN "raised"
                  ELSE "connecting"
    /\ UNCHANGED <<routerVars, statsVars, etcdVars, tracerVars>>

ConnectStep == \E outcome \in ConnectOutcomes : Connect(outcome)

(* the methods of an Etcd object exist once __init__ has returned *)
UseEtcd ==
    /\ etcd_pc = "connected"
    /\ EtcdNext

ConnectSpecInit ==
    /\ routes = <<>>
    /\ RequestInit
    /\ StatsInit
    /\ EtcdInit
    /\ ConnectInit
    /\ TracerInit

ConnectNext ==
    \/ ConnectStep
    \/ UseEtcd

ConnectSpec == ConnectSpecInit /\ [][ConnectNext]_vars /\ WF_vars(ConnectStep)

-----------------------------------------------------------------------------
(* tracer.py: the wrapper around an endpoint.  Each request is a task; a   *)
(* task runs without interruption up to `await func(...)`, where other     *)
(* tasks may run, and again from the completion of the endpoint to the end *)
(* of the wrapper.                                                         *)

(* state.gstate(name) and state.gstate(name, value): a process-wide slot *)
gstate_get(slot) == slot
gstate_set(slot, value) == value

NONE == -1

(* lines 47-51: an unset or zero slot is (re)set to 0, then read again *)
TraceIdSlot(slot) ==
    IF gstate_get(slot) = NONE \/ gstate_get(slot) = 0
    THEN gstate_set(slot, 0)
    ELSE slot

EndpointOutcomes == {"returned", "raised"}

TracerEnter(t) ==
    /\ task_pc[t] = "start"
    /\ trace_counter' = TraceIdSlot(trace_counter)
    /\ task_trace_id' = [task_trace_id EXCEPT ![t] = gstate_get(trace_counter')]
    /\ trace_log' = Append(trace_log,
                           [line |-> "REQ", trace_id |-> task_trace_id'[t], task |-> t])
    /\ task_pc' = [task_pc EXCEPT ![t] = "awaiting"]
    /\ UNCHANGED <<routerVars, statsVars, etcdVars, connectVars>>

TracerLeave(t, outcome) ==
    /\ task_pc[t] = "awaiting"
    /\ trace_log' = Append(trace_log,
                           [line |-> "RSP", trace_id |-> task_trace_id[t], task |-> t])
    /\ trace_counter' = gstate_set(trace_counter, task_trace_id[t] + 1)
    /\ task_pc' = [task_pc EXCEPT ![t] = outcome]
    /\ UNCHANGED <<task_trace_id, routerVars, statsVars, etcdVars, connectVars>>

TracerSpecInit ==
    /\ routes = <<>>
    /\ RequestInit
    /\ StatsInit
    /\ EtcdInit
    /\ ConnectedInit
    /\ TracerInit

TracerNext ==
    \/ \E t \in Tasks : TracerEnter(t)
    \/ \E t \in Tasks, outcome \in EndpointOutcomes : TracerLeave(t, outcome)

TracerSpec == TracerSpecInit /\ [][TracerNext]_vars

-----------------------------------------------------------------------------
(* Properties of the router.                                               *)

Done == pc = "done"

SpecificMatches ==
    {i \in DOMAIN routes : /\ routes[i].source # CATCHALL_PATTERN
                           /\ re_match(routes[i].source, <<"/">> \o path)}

CatchallRoutes == {i \in DOMAIN routes : routes[i].source = CATCHALL_PATTERN}

TheSpecific == routes[CHOOSE i \in SpecificMatches : TRUE]

UrlOf(base) == base \o <<"/">> \o path

HasUuid(s) == \E i \in 1..Len(s) : UuidAt(s, i)

FirstUuid(s) ==
    LET m == Min({i \in 1..Len(s) : UuidAt(s, i)})
    IN SubSeq(s, m, m + 35)

StatCount(k) == IF k \in DOMAIN statistics THEN statistics[k] ELSE 0

\* C1 as stated: when exactly one specific route matches "/" + path, the
\* request is forwarded using that route's target, with or without a catch-all
\* in the table.
C1_ForwardsWithSpecificTarget ==
    (Done /\ Cardinality(SpecificMatches) = 1) =>
        /\ Len(forward_calls) = 1
        /\ TheSpecific.target # Sentinel =>
               forward_calls[1] = UrlOf(TheSpecific.target)

\* C1 (amended): when exactly one specific route matches "/" + path, that
\* route alone decides the outcome, with or without a catch-all in the table:
\* a static target is forwarded to target + "/" + path, the sentinel target
\* sends the path to the dynamic resolver and nothing is forwarded to a
\* catch-all target.
C1_SpecificRouteDecides ==
    (Done /\ Cardinality(SpecificMatches) = 1) =>
        IF TheSpecific.target # Sentinel
        THEN /\ forward_calls = <<UrlOf(TheSpecific.target)>>
             /\ resolver_calls = <<>>
        ELSE /\ resolver_calls = <<path>>
             /\ \A k \in DOMAIN forward_calls : \A c \in CatchallRoutes :
                    forward_calls[k] # UrlOf(routes[c].target)

C1_Witness ==
    /\ Done
    /\ Cardinality(SpecificMatches) = 1
    /\ CatchallRoutes # {}
    /\ TheSpecific.target # Sentinel
    /\ forward_calls = <<UrlOf(TheSpecific.target)>>

\* C2 as stated: when no specific route matches, the request is forwarded to
\* the catch-all's target + "/" + path if a catch-all exists, and otherwise
\* fails with NotFound, which the caller receives as HTTP 404.
C2_CatchallOrNotFound ==
    (Done /\ SpecificMatches = {}) =>
        IF CatchallRoutes # {}
        THEN \E c \in CatchallRoutes : forward_calls = <<UrlOf(routes[c].target)>>
        ELSE /\ exc.cls = "BgsNotFoundException"
             /\ status = 404
             /\ forward_calls = <<>>

\* C3: when two or more specific routes match, the request fails with the
\* ambiguity error: nothing is forwarded or resolved, none of the matching
\* routes is picked, the caller gets a 5xx status and every contending route
\* is logged.
C3_AmbiguousFailsLoudly ==
    (Done /\ Cardinality(SpecificMatches) >= 2) =>
        /\ exc.cls = "BgsException"
        /\ status \in 500..599
        /\ forward_calls = <<>>
        /\ forwards = <<>>
        /\ resolver_calls = <<>>
        /\ Len(error_log) = Cardinality(SpecificMatches)
        /\ \A i \in SpecificMatches : \E k \in DOMAIN error_log : error_log[k] = routes[i]

C3_Witness ==
    /\ Done
    /\ Cardinality(SpecificMatches) >= 2
    /\ CatchallRoutes # {}
    /\ status = 500
    /\ Len(error_log) >= 2

\* C4 as stated: when the winning specific route's target is the sentinel and
\* the path contains a UUID, the directory is queried with exactly the first
\* UUID of the path and the request reaches the forwarder with the URL
\* resolved address + "/" + path.
C4_ResolvesAndForwards ==
    (Done /\ Cardinality(SpecificMatches) = 1 /\ TheSpecific.target = Sentinel
          /\ HasUuid(path)) =>
        /\ directory_calls = <<FirstUuid(path)>>
        /\ \E r \in DirectoryReplies :
              r.has_address /\ forward_calls = <<UrlOf(r.address)>>

\* C5: when the dynamic resolver is given a path without a UUID-shaped
\* substring, the directory is never called and nothing is forwarded, the
\* request fails with NotFound and the caller receives HTTP 404.
C5_NoUuidIsNotFound ==
    (resolver_calls # <<>> /\ ~HasUuid(path)) =>
        /\ directory_calls = <<>>
        /\ forward_calls = <<>>
        /\ forwards = <<>>
        /\ Done => (exc.cls = "BgsNotFoundException" /\ status = 404)

C5_Witness ==
    /\ Done
    /\ resolver_calls = <<path>>
    /\ ~HasUuid(path)
    /\ Len(path) >= 36
    /\ status = 404

\* C6: each kind of forwarding failure reaches the caller with its own
\* status: connect timeout 504, connection refused 503, other network I/O
\* error 503, read timeout 504, any other request or transport error 502,
\* anything else 500; route_path passes the HTTPException of _forward_request
\* on with its status code unchanged.
C6_FailureStatus ==
    (Done /\ backend_exc # "None") =>
        /\ exc.cls = "HTTPException"
        /\ status = exc.status_code
        /\ status = CASE backend_exc = "ConnectTimeout" -> 504
                      [] backend_exc = "ConnectError" -> 503
                      [] backend_exc \in {"ReadError", "WriteError", "CloseError"} -> 503
                      [] backend_exc = "ReadTimeout" -> 504
                      [] backend_exc \in {"WriteTimeout", "PoolTimeout",
                                          "RemoteProtocolError", "LocalProtocolError",
                                          "UnsupportedProtocol", "ProxyError",
                                          "TooManyRedirects", "DecodingError"} -> 502
                      [] OTHER -> 500

C6_Witness ==
    /\ Done
    /\ backend_exc = "ConnectTimeout"
    /\ status = 504
    /\ Len(forwards) = 1

\* C7: a request causes at most one backend request whatever its outcome, and
\* none when route matching or dynamic resolution has failed.
C7_AtMostOneBackendRequest ==
    /\ Len(forwards) <= 1
    /\ (Cardinality(SpecificMatches) >= 2
            \/ (SpecificMatches = {} /\ CatchallRoutes = {})) => forwards = <<>>
    /\ (resolver_calls # <<>> /\ forward_calls = <<>>) => forwards = <<>>
    /\ exc.cls \in {"BgsException", "BgsNotFoundException", "TypeError", "KeyError"}
            => forwards = <<>>

C7_Witness ==
    /\ Done
    /\ backend_exc = "ReadTimeout"
    /\ status = 504
    /\ forwards = forward_calls
    /\ Len(forwards) = 1

\* C8 as stated: after the gateway has handled n requests the "/" counter is
\* at least n and the request log has n entries, and a request that ended in
\* an error is in the error counter and the error log.
C8_StatsObserveEveryRequest ==
    /\ StatCount(<<"/">>) >= handled
    /\ Len(reqs) = handled
    /\ (Done /\ exc.cls # "None") =>
           (Len(errs) >= 1 /\ StatCount(ERROR_KEY) >= 1)

-----------------------------------------------------------------------------
(* Properties of the statistics collector. *)

\* the proper prefixes of a counter key that end before one of its "/", and "/"
PathPrefixes(k) ==
    {SubSeq(k, 1, n) : n \in {m \in 1..(Len(k) - 1) : k[m + 1] = "/"}}
        \cup (IF Len(k) > 1 /\ k[1] = "/" THEN {<<"/">>} ELSE {})

PrefixesDominate ==
    \A k \in DOMAIN statistics : \A j \in PathPrefixes(k) :
        StatCount(j) >= statistics[k]

RequestsCounted ==
    \A i \in DOMAIN reqs :
        /\ StatCount(<<"/">>) >= 1
        /\ reqs[i].path # <<>> => StatCount(reqs[i].path) >= 1
        /\ \A j \in PathPrefixes(reqs[i].path) : StatCount(j) >= 1

CountersNeverDecrease ==
    \A k \in DOMAIN statistics :
        k \in DOMAIN statistics' /\ statistics'[k] >= statistics[k]

\* C9: after any sequence of Stats.process and Stats.error calls no counter
\* has decreased, the count of every path prefix (including "/") is at least
\* the count of every longer path that extends it, and every prefix of a
\* requested path has been counted at least once.
C9_Counters ==
    /\ []PrefixesDominate
    /\ []RequestsCounted
    /\ [][CountersNeverDecrease]_vars

C9_Witness ==
    /\ \E i, j \in DOMAIN reqs : /\ reqs[i].path = <<"/", "a", "/", "b">>
                                 /\ reqs[j].path = <<"/", "a", "/", "c">>
    /\ errs # <<>>
    /\ StatCount(<<"/", "a">>) = 2
    /\ StatCount(<<"/", "a", "/", "b">>) = 1
    /\ StatCount(<<"/", "a", "/", "c">>) = 1
    /\ StatCount(<<"/">>) = 2

-----------------------------------------------------------------------------
(* Properties of the registry client.                                      *)

ProductOne == <<"/", "p", "r", "o", "d", "u", "c", "t", "/", "1">>
ProductOneOne == <<"/", "p", "r", "o", "d", "u", "c", "t", "/", "1", "/", "1">>
OtherOne == <<"/", "o", "t", "h", "e", "r", "/", "1">>
ProductStar == <<"/", "p", "r", "o", "d", "u", "c", "t", "/", "*">>
ProductPrefix == <<"/", "p", "r", "o", "d", "u", "c", "t">>

StoredValue(k) == store[k][2]

\* the stored keys with as many segments as the pattern, each segment
\* glob-matching the pattern's
GlobMatching(pattern) ==
    {k \in DOMAIN store :
        /\ Len(split(k)) = Len(split(pattern))
        /\ \A i \in 1..Len(split(pattern)) : fnmatch(split(k)[i], split(pattern)[i])}

ReturnsValuesOf(keys) ==
    /\ ~returned.is_none
    /\ Len(returned.items) = Cardinality(keys)
    /\ \A k \in keys : \E i \in DOMAIN returned.items : returned.items[i] = StoredValue(k)
    /\ \A i \in DOMAIN returned.items : \E k \in keys : returned.items[i] = StoredValue(k)

PrefixReturnsAll ==
    returned.call = "retrieve_prefix" =>
        ReturnsValuesOf({k \in DOMAIN store : SubSeq(k, 1, Len(returned.arg)) = returned.arg})

ExampleOfTheSpec ==
    DOMAIN store = {ProductOne, ProductOneOne, OtherOne} =>
        /\ (returned.call = "retrieve_wildcard" /\ returned.arg = ProductStar) =>
               (~returned.is_none /\ returned.items = <<StoredValue(ProductOne)>>)
        /\ (returned.call = "retrieve_prefix" /\ returned.arg = ProductPrefix) =>
               returned.items = <<StoredValue(ProductOne), StoredValue(ProductOneOne)>>

\* C10 as stated: retrieve_wildcard(pattern) returns exactly the values of the
\* stored keys that have as many "/"-separated segments as the pattern and
\* whose every segment glob-matches the pattern's, and an absent result when
\* there is none; retrieve_prefix returns the values of every key that starts
\* with the prefix.
C10_WildcardOverAllKeys ==
    /\ returned.call = "retrieve_wildcard" =>
           IF GlobMatching(returned.arg) = {} THEN returned.is_none
           ELSE ReturnsValuesOf(GlobMatching(returned.arg))
    /\ PrefixReturnsAll
    /\ ExampleOfTheSpec

\* C10 (amended): retrieve_wildcard(pattern) returns exactly the values of the
\* stored keys under the root "/" (the keys that start with "/") that have as
\* many "/"-separated segments as the pattern and whose every segment
\* glob-matches the pattern's, and an absent result when there is none;
\* retrieve_prefix returns the values of every key that starts with the prefix.
C10_WildcardUnderRoot ==
    /\ returned.call = "retrieve_wildcard" =>
           LET keys == {k \in GlobMatching(returned.arg) : k # <<>> /\ k[1] = "/"}
           IN IF keys = {} THEN returned.is_none ELSE ReturnsValuesOf(keys)
    /\ PrefixReturnsAll
    /\ ExampleOfTheSpec

C10_Witness ==
    /\ DOMAIN store = {ProductOne, ProductOneOne, OtherOne}
    /\ StoredValue(ProductOne) # StoredValue(ProductOneOne)
    /\ returned.call = "retrieve_wildcard"
    /\ returned.arg = ProductStar
    /\ returned.items = <<StoredValue(ProductOne)>>

C10_WitnessPrefix ==
    /\ DOMAIN store = {ProductOne, ProductOneOne, OtherOne}
    /\ StoredValue(ProductOne) # StoredValue(ProductOneOne)
    /\ returned.call = "retrieve_prefix"
    /\ returned.arg = ProductPrefix
    /\ Len(returned.items) = 2

-----------------------------------------------------------------------------
(* Properties of target resolution and of the catch-all.                   *)

Max(S) == CHOOSE x \in S : \A y \in S : x >= y

LastCatchall == routes[Max(CatchallRoutes)]

\* the route the decision table selects: the only specific match, or the
\* catch-all when no specific route matches
HasWinner ==
    \/ Cardinality(SpecificMatches) = 1
    \/ SpecificMatches = {} /\ CatchallRoutes # {}

Winner == IF Cardinality(SpecificMatches) = 1 THEN TheSpecific ELSE LastCatchall

\* C12 as stated: whichever route wins, the catch-all included, a target equal
\* to the sentinel sends the path to the resolver and only a resolved address
\* + "/" + path is forwarded, any other target is forwarded as target + "/" +
\* path; the literal sentinel is never the base of a forwarding URL.
C12_ResolutionForEveryWinner ==
    /\ \A k \in DOMAIN forward_calls : forward_calls[k] # UrlOf(Sentinel)
    /\ (Done /\ HasWinner) =>
          IF Winner.target = Sentinel
          THEN /\ resolver_calls = <<path>>
               /\ \A k \in DOMAIN forward_calls :
                     \E r \in DirectoryReplies :
                        r.has_address /\ forward_calls[k] = UrlOf(r.address)
          ELSE /\ resolver_calls = <<>>
               /\ forward_calls = <<UrlOf(Winner.target)>>

\* C13: when no specific route matches and the table holds catch-all routes,
\* the request is forwarded to the target of the last catch-all in table
\* order; an earlier catch-all never determines the target.
C13_LastCatchallWins ==
    (Done /\ SpecificMatches = {} /\ CatchallRoutes # {}) =>
        /\ forward_calls = <<UrlOf(LastCatchall.target)>>
        /\ resolver_calls = <<>>
        /\ \A c \in CatchallRoutes :
              routes[c].target # LastCatchall.target =>
                  \A k \in DOMAIN forward_calls : forward_calls[k] # UrlOf(routes[c].target)

C13_Witness ==
    /\ Done
    /\ SpecificMatches = {}
    /\ Cardinality(CatchallRoutes) >= 2
    /\ routes[Min(CatchallRoutes)].target # LastCatchall.target
    /\ Len(routes) = 3
    /\ forwards = <<UrlOf(LastCatchall.target)>>

-----------------------------------------------------------------------------
(* Properties of the connection to etcd.                                   *)

AllFailed(n) ==
    /\ Len(connect_attempts) = n
    /\ \A i \in 1..n : connect_attempts[i] = "error"

AtMostThreeAttempts ==
    /\ Len(connect_attempts) <= 3
    /\ etcd_pc = "connecting" => \E n \in 0..2 : AllFailed(n)
    /\ etcd_pc = "raised" => AllFailed(3)
    /\ etcd_pc = "connected" =>
          /\ connect_attempts[Len(connect_attempts)] = "ok"
          /\ \A i \in 1..(Len(connect_attempts) - 1) : connect_attempts[i] = "error"

NoAttemptAfterTheEnd ==
    etcd_pc # "connecting" =>
        (etcd_pc' = etcd_pc /\ connect_attempts' = connect_attempts)

RetriesWhileAllowed ==
    etcd_pc = "connecting" => ENABLED ConnectStep

\* C11: connecting to etcd makes at most 3 attempts: it stops at the first
\* attempt that succeeds, tries again after a failed attempt while fewer than
\* 3 have been made, raises out of the construction after 3 failed attempts
\* without a fourth, and always terminates.
C11_ConnectBounded ==
    /\ []AtMostThreeAttempts
    /\ []RetriesWhileAllowed
    /\ [][NoAttemptAfterTheEnd]_vars
    /\ <>(etcd_pc # "connecting")

C11_Witness ==
    /\ etcd_pc = "raised"
    /\ connect_attempts = <<"error", "error", "error">>

C11_WitnessRetry ==
    /\ etcd_pc = "connected"
    /\ connect_attempts = <<"error", "error", "ok">>
    /\ store # <<>>

-----------------------------------------------------------------------------
(* Properties of the tracer.                                               *)

Entered == {t \in Tasks : task_pc[t] # "start"}
Completed == {t \in Tasks : task_pc[t] \in {"returned", "raised"}}

StoredTraceId == IF trace_counter = -1 THEN 0 ELSE trace_counter

\* C14 as stated: under any interleaving of the request tasks every request
\* is logged with a trace ID no other request has, and once no request is in
\* flight the stored trace counter equals the number of completed requests.
C14_DistinctTraceIds ==
    /\ \A t, u \in Entered : t # u => task_trace_id[t] # task_trace_id[u]
    /\ \A i, j \in DOMAIN trace_log :
          (trace_log[i].task # trace_log[j].task) =>
              trace_log[i].trace_id # trace_log[j].trace_id
    /\ Entered = Completed => StoredTraceId = Cardinality(Completed)

\* what does hold: requests that do not overlap get consecutive trace IDs
C14_Sequential ==
    (\A i \in DOMAIN trace_log :
        trace_log[i].line = "REQ" =>
            (i < Len(trace_log) /\ trace_log[i + 1].line = "RSP"
                                /\ trace_log[i + 1].task = trace_log[i].task)
            \/ i = Len(trace_log))
    => /\ \A t, u \in Entered : t # u => task_trace_id[t] # task_trace_id[u]
       /\ Entered = Completed => StoredTraceId = Cardinality(Completed)

====
